---- MODULE Spec2Model ----
(***************************************************************************)
(* Model of the weekly recipes job, jobs/weekly_recipes/handler.py:        *)
(* the Lambda entry point main, the AnchorExtractor parser callbacks and   *)
(* the pure helpers pick_title, is_recipe_url, dedupe_recipes,             *)
(* pick_weekly_recipes and format_recipes.                                 *)
(*                                                                         *)
(* Python str values that the code inspects character by character (URLs,  *)
(* titles, addresses) are sequences of one-character strings.              *)
(***************************************************************************)
EXTENDS Integers, Sequences, FiniteSets, TLC

VARIABLES
    pc,          \* position of main: "start", "fetch", "compose", "send", "done", "raised"
    recipient,   \* os.environ.get("RECIPIENT_EMAIL")
    sender,      \* os.environ.get("SENDER_EMAIL")
    page,        \* index into RECIPE_PAGES of the next loop iteration
    recipes,     \* main's local list `recipes`
    fetchLog,    \* history: the URLs handed to fetch_url, in call order
    contrib,     \* history: per page index, "raised" or the recipes it extended
    now,         \* est_now
    selected,    \* main's local `selected` (unbound when the branch is skipped)
    subject,     \* main's local `subject`
    body,        \* main's local `body`
    sendLog,     \* history: one entry per send_email call
    result,      \* the value main returns
    rngTable,    \* outputs random.Random has produced so far, by seed and request
    anchors,     \* AnchorExtractor.anchors
    current,     \* AnchorExtractor._current: <<>> for None, else <<the dict>>
    text_parts,  \* AnchorExtractor._text_parts
    events,      \* history: the parse events fed to the extractor so far
    input,       \* the argument(s) of the pure function under call
    output       \* the calls made so far, each with its return value

mainVars == <<pc, recipient, sender, page, recipes, fetchLog, contrib, now,
              selected, subject, body, sendLog, result>>
parserVars == <<anchors, current, text_parts, events>>
callVars == <<input, output>>
vars == <<mainVars, rngTable, parserVars, callVars>>

\* Python's None, where a str may stand: no sequence of characters equals it
None == <<"None">>

(***************************************************************************)
(* Python str helpers                                                      *)
(***************************************************************************)
UpperLetters ==
    {"A", "B", "C", "D", "E", "F", "G", "H", "I", "J", "K", "L", "M",
     "N", "O", "P", "Q", "R", "S", "T", "U", "V", "W", "X", "Y", "Z"}

LowerLetters ==
    {"a", "b", "c", "d", "e", "f", "g", "h", "i", "j", "k", "l", "m",
     "n", "o", "p", "q", "r", "s", "t", "u", "v", "w", "x", "y", "z"}

Digits == {"0", "1", "2", "3", "4", "5", "6", "7", "8", "9"}

Whitespace == {" ", "\t", "\n"}

LowerOf ==
    [c \in UpperLetters |->
        CASE c = "A" -> "a" [] c = "B" -> "b" [] c = "C" -> "c" [] c = "D" -> "d"
          [] c = "E" -> "e" [] c = "F" -> "f" [] c = "G" -> "g" [] c = "H" -> "h"
          [] c = "I" -> "i" [] c = "J" -> "j" [] c = "K" -> "k" [] c = "L" -> "l"
          [] c = "M" -> "m" [] c = "N" -> "n" [] c = "O" -> "o" [] c = "P" -> "p"
          [] c = "Q" -> "q" [] c = "R" -> "r" [] c = "S" -> "s" [] c = "T" -> "t"
          [] c = "U" -> "u" [] c = "V" -> "v" [] c = "W" -> "w" [] c = "X" -> "x"
          [] c = "Y" -> "y" [] c = "Z" -> "z"]

\* str.lower(), one character
LowerChar(c) == IF c \in UpperLetters THEN LowerOf[c] ELSE c

\* str.lower()
lower(s) == [i \in 1..Len(s) |-> LowerChar(s[i])]

\* `sub in s` for two str values
Contains(s, sub) ==
    \E i \in 1..(Len(s) - Len(sub) + 1) : SubSeq(s, i, i + Len(sub) - 1) = sub

\* the first position in s of a character of `chars`, 0 when there is none
\* (str.find, 1-based)
Find(s, chars) ==
    IF \E i \in 1..Len(s) : s[i] \in chars
    THEN CHOOSE i \in 1..Len(s) :
            /\ s[i] \in chars
            /\ \A j \in 1..(i - 1) : s[j] \notin chars
    ELSE 0

\* str.lstrip(chars)
RECURSIVE lstrip(_, _)
lstrip(s, chars) ==
    IF s # <<>> /\ Head(s) \in chars THEN lstrip(Tail(s), chars) ELSE s

\* str.rstrip(chars)
RECURSIVE rstrip(_, _)
rstrip(s, chars) ==
    IF s # <<>> /\ s[Len(s)] \in chars
    THEN rstrip(SubSeq(s, 1, Len(s) - 1), chars)
    ELSE s

\* str.strip(chars)
strip(s, chars) == rstrip(lstrip(s, chars), chars)

\* str.split(sep) for a one-character sep: every piece, empty ones included
RECURSIVE split(_, _)
split(s, sep) ==
    LET i == Find(s, {sep})
    IN  IF i = 0 THEN <<s>>
        ELSE <<SubSeq(s, 1, i - 1)>> \o split(SubSeq(s, i + 1, Len(s)), sep)

\* str.split() with no argument: the maximal runs of non-whitespace
RECURSIVE splitWs(_)
splitWs(s) ==
    LET t == lstrip(s, Whitespace)
        i == Find(t, Whitespace)
    IN  IF t = <<>> THEN <<>>
        ELSE IF i = 0 THEN <<t>>
        ELSE <<SubSeq(t, 1, i - 1)>> \o splitWs(SubSeq(t, i, Len(t)))

\* sep.join(parts)
RECURSIVE join(_, _)
join(sep, parts) ==
    IF parts = <<>> THEN <<>>
    ELSE IF Len(parts) = 1 THEN parts[1]
    ELSE parts[1] \o sep \o join(sep, Tail(parts))

\* a list comprehension [x for x in s if x]
RECURSIVE NonEmpty(_)
NonEmpty(s) ==
    IF s = <<>> THEN <<>>
    ELSE IF Head(s) = <<>> THEN NonEmpty(Tail(s))
    ELSE <<Head(s)>> \o NonEmpty(Tail(s))

Min(a, b) == IF a <= b THEN a ELSE b

(***************************************************************************)
(* Configuration and recipes                                               *)
(***************************************************************************)
RECIPE_PAGES ==
    <<"https://www.noracooks.com/category/meal-type/dinner/",
      "https://www.noracooks.com/category/meal-type/lunch/">>

\* the `count=5` main passes to pick_weekly_recipes
WEEKLY_COUNT == 5

\* "https://www.noracooks.com"
SiteRoot ==
    <<"h", "t", "t", "p", "s", ":", "/", "/", "w", "w", "w", ".", "n", "o", "r",
      "a", "c", "o", "o", "k", "s", ".", "c", "o", "m">>

Recipe(title, url) == [title |-> title, url |-> url]

(***************************************************************************)
(* dedupe_recipes                                                          *)
(***************************************************************************)
\* mutant: the key is the URL as written, not lowercased
DedupeKeyCaseSensitive(recipe) == recipe.url

\* `url = recipe["url"].lower()`
DedupeKey(recipe) == lower(recipe.url)

RECURSIVE DedupeLoop(_, _, _)
DedupeLoop(rest, seen, deduped) ==
    IF rest = <<>> THEN deduped
    ELSE LET url == DedupeKey(Head(rest))
         IN  IF url \in seen
             THEN DedupeLoop(Tail(rest), seen, deduped)
             ELSE DedupeLoop(Tail(rest), seen \cup {url}, Append(deduped, Head(rest)))

dedupe_recipes(rs) == DedupeLoop(rs, {}, <<>>)

(***************************************************************************)
(* datetime.isocalendar, for an instant [year, month, day, hour]           *)
(***************************************************************************)
IsLeap(y) == y % 4 = 0 /\ (y % 100 # 0 \/ y % 400 = 0)

DaysBeforeYear(y) ==
    LET p == y - 1 IN p * 365 + (p \div 4) - (p \div 100) + (p \div 400)

DaysBeforeMonth(y, m) ==
    <<0, 31, 59, 90, 120, 151, 181, 212, 243, 273, 304, 334>>[m]
        + (IF m > 2 /\ IsLeap(y) THEN 1 ELSE 0)

Ymd2Ord(y, m, d) == DaysBeforeYear(y) + DaysBeforeMonth(y, m) + d

IsoWeek1Monday(y) ==
    LET firstday == Ymd2Ord(y, 1, 1)
        firstweekday == (firstday + 6) % 7
        week1monday == firstday - firstweekday
    IN  IF firstweekday > 3 THEN week1monday + 7 ELSE week1monday

\* <<ISO year, ISO week, ISO weekday>>
isocalendar(t) ==
    LET today == Ymd2Ord(t.year, t.month, t.day)
        w1 == IsoWeek1Monday(t.year)
        days == today - w1
    IN  IF days < 0
        THEN LET w0 == IsoWeek1Monday(t.year - 1)
             IN  <<t.year - 1, ((today - w0) \div 7) + 1, ((today - w0) % 7) + 1>>
        ELSE IF days \div 7 >= 52 /\ today >= IsoWeek1Monday(t.year + 1)
        THEN <<t.year + 1, 1, (days % 7) + 1>>
        ELSE <<t.year, (days \div 7) + 1, (days % 7) + 1>>

(***************************************************************************)
(* pick_weekly_recipes                                                     *)
(***************************************************************************)
\* mutant: the seed also carries the ISO weekday
WeekSeedWithDay(t) ==
    LET iso == isocalendar(t)
    IN  ToString(iso[1]) \o "-W" \o ToString(iso[2]) \o "-" \o ToString(iso[3])

\* `seed = f"{year}-W{week}"`
WeekSeed(t) ==
    LET iso == isocalendar(t)
    IN  ToString(iso[1]) \o "-W" \o ToString(iso[2])

\* the index sequences Random.sample may return for a population of n and
\* a request of k: k distinct positions, in selection order
SampleIndexes(n, k) ==
    {s \in [1..k -> 1..n] : \A i, j \in 1..k : i # j => s[i] # s[j]}

\* what a generator freshly built from `seed` answers to sample(n, k) as
\* its first request: the answer it gave before, else any answer
Draws(table, seed, n, k) ==
    LET key == <<seed, n, k>>
    IN  IF key \in DOMAIN table THEN {table[key]} ELSE SampleIndexes(n, k)

\* a call that returns a value, and a call that raises
Return(v) == [error |-> "", value |-> v]
Raise(e) == [error |-> e, value |-> <<>>]

\* Random.sample(population, k), given the generator's answer `draw`
sample(population, k, draw) ==
    IF k < 0 \/ k > Len(population)
    THEN Raise("ValueError")
    ELSE Return([i \in 1..k |-> population[draw[i]]])

\* mutant: the length test is strict, a list of exactly `count` is sampled
pick_weekly_recipes_strict(rs, count, draw) ==
    IF Len(rs) < count THEN Return(rs) ELSE sample(rs, count, draw)

\* mutant: the list is returned whatever its length
pick_weekly_recipes_never_sample(rs, count, draw) == Return(rs)

\* the value pick_weekly_recipes returns, given the generator's answer
pick_weekly_recipes(rs, count, draw) ==
    IF Len(rs) <= count THEN Return(rs) ELSE sample(rs, count, draw)

\* the size of the request a call may make of its generator
SampleSize(rs, count) == IF 0 <= count /\ count <= Len(rs) THEN count ELSE 0

\* the generator's table after the call: only the sampling branch asks
Recorded(table, rs, count, seed, draw) ==
    IF Len(rs) <= count \/ count < 0
    THEN table
    ELSE (<<seed, Len(rs), count>> :> draw) @@ table

(***************************************************************************)
(* format_recipes: the body as its sequence of lines, each line as the     *)
(* sequence of its f-string pieces                                         *)
(***************************************************************************)
RECURSIVE RecipeLines(_, _)
RecipeLines(rs, idx) ==
    IF rs = <<>> THEN <<>>
    ELSE << <<idx, ". ", Head(rs).title>>, <<"   ", Head(rs).url>>, <<>> >>
            \o RecipeLines(Tail(rs), idx + 1)

SourceLines == [i \in 1..Len(RECIPE_PAGES) |-> <<"- ", RECIPE_PAGES[i]>>]

format_recipes(rs, week_label) ==
    << <<"Weekly vegan recipe picks (", week_label, ")">>, <<>> >>
        \o RecipeLines(rs, 1)
        \o << <<"Sources:">> >>
        \o SourceLines

\* `est_now.strftime("Week of %b %d, %Y")`
WeekLabel(t) == <<"Week of ", t.month, " ", t.day, ", ", t.year>>

(***************************************************************************)
(* main                                                                    *)
(***************************************************************************)
\* values os.environ.get may return for an address
EnvValues == {None, <<>>, <<"m", "e", "@", "x", ".", "i", "o">>}

\* Python truthiness of an environment value
Truthy(v) == v \notin {None, <<>>}

\* reference instants (datetime.now in UTC-5) around the turn of a year:
\* 2024-12-29 is ISO 2024-W52, 2024-12-30 to 2025-01-05 are ISO 2025-W1
Instant(y, m, d, h) == [year |-> y, month |-> m, day |-> d, hour |-> h]

Instants ==
    {Instant(2024, 12, 29, 23), Instant(2024, 12, 31, 12),
     Instant(2025, 1, 1, 0), Instant(2025, 1, 6, 0)}

RunInstants == {Instant(2024, 12, 31, 12), Instant(2025, 1, 6, 0)}

\* recipes as extract_recipes produces them: a title of 4 to 120
\* characters and a normalized URL of the site
Dish(c) == Recipe(<<"D", "i", "s", "h", " ", c>>, SiteRoot \o <<"/", c>>)

\* the links of the site, in page order; "/A" and "/a" differ only in case
Catalogue == <<Dish("a"), Dish("b"), Dish("A"), Dish("c"), Dish("d"), Dish("e"), Dish("f")>>

\* the most recipes one source page yields
MaxPerPage == 4

\* what extract_recipes may return for one page: a run of the catalogue
PageYields ==
    {SubSeq(Catalogue, i, j) :
        i \in 1..Len(Catalogue),
        j \in 0..Len(Catalogue)} \cap
    UNION {[1..n -> {Catalogue[k] : k \in 1..Len(Catalogue)}] : n \in 0..MaxPerPage}

\* a local of main that is not bound yet
Unbound == <<>>

\* est_now before it is computed
NoInstant == Instant(0, 0, 0, 0)

\* main has not returned
NoResult == [status |-> "running"]

MainInit ==
    /\ pc = "start"
    /\ recipient \in EnvValues
    /\ sender \in EnvValues
    /\ page = 1
    /\ recipes = <<>>
    /\ fetchLog = <<>>
    /\ contrib = <<>>
    /\ now = NoInstant
    /\ selected = Unbound
    /\ subject = Unbound
    /\ body = Unbound
    /\ sendLog = <<>>
    /\ result = NoResult

MainIdle ==
    /\ pc = "idle"
    /\ recipient = None
    /\ sender = None
    /\ page = 1
    /\ recipes = <<>>
    /\ fetchLog = <<>>
    /\ contrib = <<>>
    /\ now = NoInstant
    /\ selected = Unbound
    /\ subject = Unbound
    /\ body = Unbound
    /\ sendLog = <<>>
    /\ result = NoResult

ParserIdle ==
    /\ anchors = <<>>
    /\ current = <<>>
    /\ text_parts = <<>>
    /\ events = <<>>

CallIdle ==
    /\ input = None
    /\ output = <<>>

\* mutant: only the recipient is required
CheckConfigRecipientOnly ==
    /\ pc = "start"
    /\ IF ~Truthy(recipient)
       THEN /\ result' = [status |-> "error", message |-> "Missing config"]
            /\ pc' = "done"
       ELSE /\ result' = result
            /\ pc' = "fetch"
    /\ UNCHANGED <<recipient, sender, page, recipes, fetchLog, contrib, now,
                   selected, subject, body, sendLog>>
    /\ UNCHANGED <<rngTable, parserVars, callVars>>

\* lines 46-53: read the environment, refuse to run without both addresses
CheckConfig ==
    /\ pc = "start"
    /\ IF ~(Truthy(recipient) /\ Truthy(sender))
       THEN /\ result' = [status |-> "error", message |-> "Missing config"]
            /\ pc' = "done"
       ELSE /\ result' = result
            /\ pc' = "fetch"
    /\ UNCHANGED <<recipient, sender, page, recipes, fetchLog, contrib, now,
                   selected, subject, body, sendLog>>
    /\ UNCHANGED <<rngTable, parserVars, callVars>>

\* mutant: the try/except encloses the loop, a failure ends the fetching
FetchPageStopAtFailure ==
    /\ pc = "fetch"
    /\ page <= Len(RECIPE_PAGES)
    /\ fetchLog' = Append(fetchLog, RECIPE_PAGES[page])
    /\ \/ /\ contrib' = Append(contrib, [raised |-> TRUE, recipes |-> <<>>])
          /\ recipes' = recipes
          /\ pc' = "compose"
       \/ \E found \in PageYields :
             /\ contrib' = Append(contrib, [raised |-> FALSE, recipes |-> found])
             /\ recipes' = recipes \o found
             /\ pc' = IF page = Len(RECIPE_PAGES) THEN "compose" ELSE "fetch"
    /\ page' = page + 1
    /\ UNCHANGED <<recipient, sender, now, selected, subject, body, sendLog, result>>
    /\ UNCHANGED <<rngTable, parserVars, callVars>>

\* lines 54-59: one iteration of the loop over RECIPE_PAGES; fetch_url or
\* extract_recipes raises, or extract_recipes returns a list
FetchPage ==
    /\ pc = "fetch"
    /\ page <= Len(RECIPE_PAGES)
    /\ fetchLog' = Append(fetchLog, RECIPE_PAGES[page])
    /\ \/ /\ contrib' = Append(contrib, [raised |-> TRUE, recipes |-> <<>>])
          /\ recipes' = recipes
       \/ \E found \in PageYields :
             /\ contrib' = Append(contrib, [raised |-> FALSE, recipes |-> found])
             /\ recipes' = recipes \o found
    /\ page' = page + 1
    /\ pc' = IF page = Len(RECIPE_PAGES) THEN "compose" ELSE "fetch"
    /\ UNCHANGED <<recipient, sender, now, selected, subject, body, sendLog, result>>
    /\ UNCHANGED <<rngTable, parserVars, callVars>>

NoRecipesBody ==
    << <<"No recipes were found this week. Please check the source pages or parser rules.">>,
       <<>>,
       <<"Sources:">>,
       <<"- ", RECIPE_PAGES[1]>>,
       <<"- ", RECIPE_PAGES[2]>>,
       <<>> >>

\* mutant: with no recipe left the run returns an error and sends nothing
ComposeReturnsWhenEmpty ==
    /\ pc = "compose"
    /\ \E t \in RunInstants :
          LET deduped == dedupe_recipes(recipes)
              week_label == WeekLabel(t)
              seed == WeekSeed(t)
          IN  /\ recipes' = deduped
              /\ now' = t
              /\ IF deduped = <<>>
                 THEN /\ result' = [status |-> "error", message |-> "No recipes found"]
                      /\ pc' = "done"
                      /\ UNCHANGED <<subject, body, selected, rngTable>>
                 ELSE \E draw \in Draws(rngTable, seed, Len(deduped),
                                        SampleSize(deduped, WEEKLY_COUNT)) :
                         LET picked == pick_weekly_recipes(deduped, WEEKLY_COUNT, draw).value
                         IN  /\ selected' = picked
                             /\ subject' = <<"Weekly Vegan Recipes - ", week_label>>
                             /\ body' = format_recipes(picked, week_label)
                             /\ rngTable' = Recorded(rngTable, deduped, WEEKLY_COUNT, seed, draw)
                             /\ pc' = "send"
                             /\ result' = result
    /\ UNCHANGED <<recipient, sender, page, fetchLog, contrib, sendLog>>
    /\ UNCHANGED <<parserVars, callVars>>

\* lines 61-78: deduplicate, take the reference instant, select and format
Compose ==
    /\ pc = "compose"
    /\ \E t \in RunInstants :
          LET deduped == dedupe_recipes(recipes)
              week_label == WeekLabel(t)
              seed == WeekSeed(t)
          IN  /\ recipes' = deduped
              /\ now' = t
              /\ IF deduped = <<>>
                 THEN /\ subject' = <<"Weekly Vegan Recipes - ", week_label, " - No recipes found">>
                      /\ body' = NoRecipesBody
                      /\ selected' = selected
                      /\ rngTable' = rngTable
                 ELSE \E draw \in Draws(rngTable, seed, Len(deduped),
                                        SampleSize(deduped, WEEKLY_COUNT)) :
                         LET picked == pick_weekly_recipes(deduped, WEEKLY_COUNT, draw).value
                         IN  /\ selected' = picked
                             /\ subject' = <<"Weekly Vegan Recipes - ", week_label>>
                             /\ body' = format_recipes(picked, week_label)
                             /\ rngTable' = Recorded(rngTable, deduped, WEEKLY_COUNT, seed, draw)
    /\ pc' = "send"
    /\ UNCHANGED <<recipient, sender, page, fetchLog, contrib, sendLog, result>>
    /\ UNCHANGED <<parserVars, callVars>>

\* what one call of send_email does: returns True, returns False (the SES
\* call raised inside the try), or raises (boto3 import or client creation,
\* which are outside the try)
SendOutcomes == {"sent", "ses_error", "client_error"}

\* mutant: a failed send is tried once more before the error is returned
DeliverWithRetry ==
    /\ pc = "send"
    /\ \E outcome \in SendOutcomes :
          /\ sendLog' = Append(sendLog, [sender |-> sender, recipient |-> recipient,
                                         subject |-> subject, body |-> body,
                                         outcome |-> outcome])
          /\ IF outcome = "client_error"
             THEN /\ pc' = "raised"
                  /\ result' = result
             ELSE IF outcome = "ses_error" /\ sendLog = <<>>
             THEN /\ pc' = "send"
                  /\ result' = result
             ELSE /\ pc' = "done"
                  /\ result' = IF outcome = "sent"
                               THEN [status |-> "success", recipe_count |-> Len(recipes)]
                               ELSE [status |-> "error", message |-> "Failed to send email"]
    /\ UNCHANGED <<recipient, sender, page, recipes, fetchLog, contrib, now,
                   selected, subject, body>>
    /\ UNCHANGED <<rngTable, parserVars, callVars>>

\* lines 80-85: the one send_email call and the returned status
Deliver ==
    /\ pc = "send"
    /\ \E outcome \in SendOutcomes :
          /\ sendLog' = Append(sendLog, [sender |-> sender, recipient |-> recipient,
                                         subject |-> subject, body |-> body,
                                         outcome |-> outcome])
          /\ IF outcome = "client_error"
             THEN /\ pc' = "raised"
                  /\ result' = result
             ELSE /\ pc' = "done"
                  /\ result' = IF outcome = "sent"
                               THEN [status |-> "success", recipe_count |-> Len(recipes)]
                               ELSE [status |-> "error", message |-> "Failed to send email"]
    /\ UNCHANGED <<recipient, sender, page, recipes, fetchLog, contrib, now,
                   selected, subject, body>>
    /\ UNCHANGED <<rngTable, parserVars, callVars>>

Init ==
    /\ MainInit
    /\ rngTable = <<>>
    /\ ParserIdle
    /\ CallIdle

Next ==
    \/ CheckConfig
    \/ FetchPage
    \/ Compose
    \/ Deliver

Spec == Init /\ [][Next]_vars

(***************************************************************************)
(* Properties of main                                                      *)
(***************************************************************************)
Configured == Truthy(recipient) /\ Truthy(sender)

\* the recipes of the pages attempted so far that did not raise, in page order
RECURSIVE Gathered(_)
Gathered(log) ==
    IF log = <<>> THEN <<>>
    ELSE Gathered(SubSeq(log, 1, Len(log) - 1))
            \o (IF log[Len(log)].raised THEN <<>> ELSE log[Len(log)].recipes)

\* the answer main's generator gave for a list, <<>> if it was not asked
AnswerGiven(rs) ==
    LET key == <<WeekSeed(now), Len(rs), WEEKLY_COUNT>>
    IN  IF key \in DOMAIN rngTable THEN rngTable[key] ELSE <<>>

LoopOver == pc \in {"compose", "send", "done", "raised"}
Composed == pc \in {"send", "done", "raised"}
Returned == pc = "done"

\* C1: in a configured run, whichever pages raise, every page of
\* RECIPE_PAGES is attempted exactly once in configured order, a page that
\* raised adds no recipe, and the recipes of the other pages go through
\* dedupe_recipes, pick_weekly_recipes, format_recipes and the delivery;
\* with one of two pages failing and the delivery succeeding the status is
\* "success" and the count is that of the successful page's recipes.
C1_FailedSourceIsSkipped ==
    Configured =>
        /\ fetchLog = SubSeq(RECIPE_PAGES, 1, Len(fetchLog))
        /\ Len(contrib) = Len(fetchLog)
        /\ LoopOver => fetchLog = RECIPE_PAGES
        /\ pc \in {"fetch", "compose"} => recipes = Gathered(contrib)
        /\ \A i \in 1..Len(contrib) : contrib[i].raised => contrib[i].recipes = <<>>
        /\ Composed =>
              LET kept == dedupe_recipes(Gathered(contrib))
              IN  /\ recipes = kept
                  /\ kept # <<>> =>
                        /\ selected = pick_weekly_recipes(kept, WEEKLY_COUNT, AnswerGiven(kept)).value
                        /\ body = format_recipes(selected, WeekLabel(now))
                  /\ pc \in {"done", "raised"} =>
                        /\ Len(sendLog) = 1
                        /\ sendLog[1].body = body
        /\ (/\ Returned
            /\ Cardinality({i \in 1..Len(contrib) : contrib[i].raised}) = 1
            /\ sendLog[1].outcome = "sent") =>
              /\ result.status = "success"
              /\ \E i \in 1..Len(contrib) :
                    /\ ~contrib[i].raised
                    /\ result.recipe_count = Len(dedupe_recipes(contrib[i].recipes))

\* a run returned success with the first page failed and recipes from the second
C1_Witness ==
    /\ Returned
    /\ Len(contrib) = 2
    /\ contrib[1].raised
    /\ ~contrib[2].raised
    /\ Len(contrib[2].recipes) >= 2
    /\ selected # Unbound
    /\ result.status = "success"

\* C2: with the recipient or the sender absent or empty, the run returns an
\* error status before any page is fetched, and nothing is sent.
C2_MissingConfigStopsTheRun ==
    ~Configured =>
        /\ fetchLog = <<>>
        /\ sendLog = <<>>
        /\ pc \in {"start", "done"}
        /\ pc = "done" => result = [status |-> "error", message |-> "Missing config"]

\* a run with an empty sender has returned
C2_Witness ==
    /\ Returned
    /\ Truthy(recipient)
    /\ sender = <<>>
    /\ result.status = "error"

\* C3: when send_email returns False the run returns an error status, the
\* send happens only after all fetches, the deduplication, the selection and
\* the formatting, send_email is called at most once, and no page is fetched
\* twice.
C3_DeliveryFailureIsFinal ==
    /\ Len(sendLog) <= 1
    /\ \A i, j \in 1..Len(fetchLog) : fetchLog[i] = fetchLog[j] => i = j
    /\ sendLog # <<>> =>
          /\ fetchLog = RECIPE_PAGES
          /\ recipes = dedupe_recipes(Gathered(contrib))
          /\ now # NoInstant
          /\ sendLog[1].body = body
          /\ sendLog[1].subject = subject
          /\ body # Unbound
          /\ recipes # <<>> => selected # Unbound
          /\ sendLog[1].outcome = "ses_error" =>
                /\ pc = "done"
                /\ result = [status |-> "error", message |-> "Failed to send email"]

\* a run whose only send failed, after a page fetch had failed too
C3_Witness ==
    /\ Returned
    /\ Len(sendLog) = 1
    /\ sendLog[1].outcome = "ses_error"
    /\ \E i \in 1..Len(contrib) : contrib[i].raised
    /\ selected # Unbound
    /\ result.status = "error"

\* main has returned or raised
Ended == pc \in {"done", "raised"}

\* no page attempted so far has given a recipe: each raised or yielded none
NothingFound == Gathered(contrib) = <<>>

\* what holds of a configured run in every state
OneDeliveryDecides ==
    /\ Len(sendLog) <= 1
    /\ sendLog # <<>> => fetchLog = RECIPE_PAGES /\ Len(contrib) = Len(RECIPE_PAGES)
    /\ Ended => Len(sendLog) = 1
    /\ pc = "raised" => result = NoResult /\ sendLog[1].outcome = "client_error"
    /\ Returned =>
          /\ result.status \in {"success", "error"}
          /\ result.status = "success" <=> sendLog[1].outcome = "sent"
    /\ (Composed /\ NothingFound) =>
          /\ selected = Unbound
          /\ rngTable = <<>>
          /\ subject[3] = " - No recipes found"
          /\ body = NoRecipesBody
          /\ sendLog # <<>> =>
                /\ sendLog[1].subject = subject
                /\ sendLog[1].body = NoRecipesBody
          /\ (Returned /\ sendLog[1].outcome = "sent") =>
                result = [status |-> "success", recipe_count |-> 0]
    /\ (Composed /\ ~NothingFound) =>
          /\ body # NoRecipesBody
          /\ Len(subject) = 2

\* how far a run has come: the start, the pages in turn, the composition,
\* the delivery, the end
Stage ==
    CASE pc = "start" -> 0
      [] pc = "fetch" -> page
      [] pc = "compose" -> Len(RECIPE_PAGES) + 1
      [] pc = "send" -> Len(RECIPE_PAGES) + 2
      [] OTHER -> Len(RECIPE_PAGES) + 3

\* C13: in every run with recipient and sender configured, exactly one
\* delivery attempt is made, after all source pages have been attempted:
\* a run that has not ended can always take its next step, every step
\* brings it nearer its end, the one step that sends comes after the last
\* page and ends the run, and an ended run has sent once.  main returns
\* "success" exactly when that attempt succeeds, so an error status comes
\* from the delivery alone.  When every page fails or no recipe is found,
\* the selection is skipped, the "no recipes found" notice is what is
\* sent, and a success reports recipe_count 0.
C13_OneDeliveryDecidesTheStatus ==
    /\ [](Configured => OneDeliveryDecides)
    /\ []((Configured /\ ~Ended) => ENABLED Next)
    /\ [][Configured =>
             /\ Stage' > Stage
             /\ sendLog' # sendLog =>
                   /\ sendLog = <<>>
                   /\ Len(sendLog') = 1
                   /\ fetchLog = RECIPE_PAGES
                   /\ pc = "send"
                   /\ Ended']_vars

\* both pages raised, the notice was sent, and the run returned success
\* with recipe_count 0
C13_Witness ==
    /\ Configured
    /\ Returned
    /\ Len(contrib) = 2
    /\ contrib[1].raised
    /\ contrib[2].raised
    /\ selected = Unbound
    /\ Len(sendLog) = 1
    /\ sendLog[1].outcome = "sent"
    /\ sendLog[1].body = NoRecipesBody
    /\ result = [status |-> "success", recipe_count |-> 0]

(***************************************************************************)
(* dedupe_recipes, called on its own                                       *)
(***************************************************************************)
\* the longest list handed to dedupe_recipes
MaxListLen == 3

DedupeTitles == {<<"C", "h", "i", "l", "i">>, <<"T", "a", "c", "o", "s">>}

DedupePaths == {<<"/", "a">>, <<"/", "A">>, <<"/", "b">>}

DedupePool == {Recipe(t, SiteRoot \o path) : t \in DedupeTitles, path \in DedupePaths}

DedupeInit ==
    /\ input \in UNION {[1..n -> DedupePool] : n \in 0..MaxListLen}
    /\ output = <<>>
    /\ rngTable = <<>>
    /\ MainIdle
    /\ ParserIdle

\* one call dedupe_recipes(input)
CallDedupe ==
    /\ output = <<>>
    /\ output' = <<dedupe_recipes(input)>>
    /\ UNCHANGED <<input, rngTable, mainVars, parserVars>>

DedupeNext == CallDedupe

SpecDedupe == DedupeInit /\ [][DedupeNext]_vars

\* the positions of `rs` whose lowercased URL occurs at no earlier position
FirstPositions(rs) ==
    {i \in 1..Len(rs) : \A j \in 1..(i - 1) : lower(rs[j].url) # lower(rs[i].url)}

\* the k-th smallest element of a set of positions
Nth(positions, k) ==
    CHOOSE i \in positions : Cardinality({j \in positions : j <= i}) = k

LowerUrls(rs) == {lower(rs[i].url) : i \in 1..Len(rs)}

\* C4: dedupe_recipes returns the recipes at the first occurrence of each
\* lowercased URL, in input order: one recipe per lowercased URL, every
\* lowercased URL of the input kept, and no more recipes than distinct
\* lowercased URLs.
C4_DedupeKeepsFirstOccurrences ==
    output # <<>> =>
        LET out == output[1]
            first == FirstPositions(input)
        IN  /\ Len(out) = Cardinality(first)
            /\ \A k \in 1..Len(out) : out[k] = input[Nth(first, k)]
            /\ \A i, j \in 1..Len(out) :
                  lower(out[i].url) = lower(out[j].url) => i = j
            /\ LowerUrls(out) = LowerUrls(input)
            /\ Len(out) <= Cardinality(LowerUrls(input))

\* a list whose second recipe repeats the first one's URL in another case
\* and with another title, followed by a new URL, has been deduplicated
C4_Witness ==
    /\ output # <<>>
    /\ Len(input) = 3
    /\ input[1].url # input[2].url
    /\ lower(input[1].url) = lower(input[2].url)
    /\ input[1].title # input[2].title
    /\ lower(input[3].url) # lower(input[1].url)
    /\ output[1] = <<input[1], input[3]>>

(***************************************************************************)
(* pick_weekly_recipes, called repeatedly on one list                      *)
(***************************************************************************)
\* the longest list handed to pick_weekly_recipes
MaxPickLen == 3

\* the largest target count
MaxCount == 2

\* the calls made on one list
MaxCalls == 2

\* a deduplicated list: recipes with pairwise distinct lowercased URLs
DistinctCatalogue == <<Dish("a"), Dish("b"), Dish("c"), Dish("d"), Dish("e")>>

PickInit ==
    /\ input \in [recipes : {SubSeq(DistinctCatalogue, 1, n) :
                                n \in 0..Min(MaxPickLen, Len(DistinctCatalogue))},
                  count : 0..MaxCount]
    /\ output = <<>>
    /\ rngTable = <<>>
    /\ MainIdle
    /\ ParserIdle

\* one call pick_weekly_recipes(input.recipes, input.count, t)
CallPick ==
    /\ Len(output) < MaxCalls
    /\ \E t \in Instants :
          \E draw \in Draws(rngTable, WeekSeed(t), Len(input.recipes),
                            SampleSize(input.recipes, input.count)) :
             /\ output' = Append(output,
                    [now |-> t,
                     ret |-> pick_weekly_recipes(input.recipes, input.count, draw)])
             /\ rngTable' = Recorded(rngTable, input.recipes, input.count, WeekSeed(t), draw)
    /\ UNCHANGED <<input, mainVars, parserVars>>

PickNext == CallPick

SpecPick == PickInit /\ [][PickNext]_vars

SameIsoWeek(t1, t2) ==
    /\ isocalendar(t1)[1] = isocalendar(t2)[1]
    /\ isocalendar(t1)[2] = isocalendar(t2)[2]

\* C5: two calls on the same list and count whose reference instants lie in
\* the same ISO year and ISO week return the same selection, element for
\* element.
C5_SameWeekSameSelection ==
    \A i, j \in 1..Len(output) :
        SameIsoWeek(output[i].now, output[j].now) => output[i].ret = output[j].ret

\* two calls that sampled, at instants of one ISO week in two calendar years
C5_Witness ==
    /\ Len(output) = 2
    /\ output[1].now.year # output[2].now.year
    /\ SameIsoWeek(output[1].now, output[2].now)
    /\ Len(input.recipes) > input.count
    /\ input.count >= 2
    /\ Len(output[1].ret.value) = input.count

\* the recipes of `picked` are those at pairwise distinct positions of `rs`
FromDistinctPositions(picked, rs) ==
    \E f \in [1..Len(picked) -> 1..Len(rs)] :
        /\ \A i, j \in 1..Len(picked) : f[i] = f[j] => i = j
        /\ \A i \in 1..Len(picked) : picked[i] = rs[f[i]]

\* C6 as claimed: for every list, count and instant the call returns exactly
\* min(count, len(list)) recipes from distinct positions, never more than
\* count, and an empty selection only for an empty list.
C6_AsClaimed ==
    \A i \in 1..Len(output) :
        LET ret == output[i].ret
        IN  /\ ret.error = ""
            /\ Len(ret.value) = Min(input.count, Len(input.recipes))
            /\ FromDistinctPositions(ret.value, input.recipes)
            /\ Len(ret.value) <= input.count
            /\ ret.value = <<>> => input.recipes = <<>>

\* C6, amended: for every list, instant and count >= 0 the call returns
\* exactly min(count, len(list)) recipes from distinct positions, never more
\* than count, and an empty selection only for an empty list or a count of 0.
C6_SelectionSize ==
    \A i \in 1..Len(output) :
        LET ret == output[i].ret
        IN  input.count >= 0 =>
                /\ ret.error = ""
                /\ Len(ret.value) = Min(input.count, Len(input.recipes))
                /\ FromDistinctPositions(ret.value, input.recipes)
                /\ Len(ret.value) <= input.count
                /\ ret.value = <<>> => (input.recipes = <<>> \/ input.count = 0)

\* a call that sampled 2 recipes out of 3, not in list order, and a call
\* with count 0 that returned nothing from a list of 3
C6_Witness ==
    /\ output # <<>>
    /\ Len(input.recipes) = 3
    /\ \/ /\ input.count = 2
          /\ output[1].ret.value = <<input.recipes[3], input.recipes[1]>>
       \/ /\ input.count = 0
          /\ output[1].ret.value = <<>>

\* C7: a list no longer than count is returned as it is, in input order,
\* whatever the reference instant.
C7_ShortListUnchanged ==
    \A i \in 1..Len(output) :
        Len(input.recipes) <= input.count => output[i].ret = Return(input.recipes)

\* a list of exactly count recipes returned unchanged in two different weeks
C7_Witness ==
    /\ Len(output) = 2
    /\ Len(input.recipes) = 2
    /\ input.count = 2
    /\ ~SameIsoWeek(output[1].now, output[2].now)
    /\ output[1].ret.value = input.recipes
    /\ output[2].ret.value = input.recipes

(***************************************************************************)
(* AnchorExtractor: the callbacks HTMLParser.feed makes, one per parse      *)
(* event of the markup                                                     *)
(***************************************************************************)
\* the most parse events in one document
MaxEvents == 5

\* tag names as HTMLParser reports them (lowercased)
Tags == {"a", "span"}

\* attribute lists of a start tag: (name, value) pairs in markup order
AttrLists ==
    { <<>>,
      << <<"href", <<"/", "r", "1">> >>, <<"title", <<"T", "a", "c", "o", "s">> >> >>,
      << <<"aria-label", <<"S", "o", "u", "p", "s">> >>, <<"href", <<"/", "r", "2">> >>,
         <<"href", <<"/", "r", "3">> >> >> }

\* text nodes
DataPieces == {<<"V", "e", "g", "a", "n">>, <<" ", "\n", " ", "p", "i", "e", " ">>}

\* `attr_map = {key: value for key, value in attrs}; attr_map.get(name)`:
\* the value of the last pair with that name, None without one
RECURSIVE AttrGet(_, _)
AttrGet(attrs, name) ==
    IF attrs = <<>> THEN None
    ELSE IF attrs[Len(attrs)][1] = name THEN attrs[Len(attrs)][2]
    ELSE AttrGet(SubSeq(attrs, 1, Len(attrs) - 1), name)

StartEvent(tag, attrs) == [kind |-> "start", tag |-> tag, attrs |-> attrs, data |-> <<>>]
DataEvent(data) == [kind |-> "data", tag |-> "", attrs |-> <<>>, data |-> data]
EndEvent(tag) == [kind |-> "end", tag |-> tag, attrs |-> <<>>, data |-> <<>>]

\* the events parser.feed may report next.  Under extract_recipes(html,
\* base_url), whose arguments are `input`, it is the next event of html;
\* with no markup given it is any event, up to MaxEvents of them.
Incoming ==
    IF Len(input) = 2
    THEN IF Len(events) < Len(input[1]) THEN {input[1][Len(events) + 1]} ELSE {}
    ELSE IF Len(events) < MaxEvents
    THEN {StartEvent(tag, attrs) : tag \in Tags, attrs \in AttrLists}
            \cup {DataEvent(data) : data \in DataPieces}
            \cup {EndEvent(tag) : tag \in Tags}
    ELSE {}

ParserInit ==
    /\ anchors = <<>>
    /\ current = <<>>
    /\ text_parts = <<>>
    /\ events = <<>>
    /\ rngTable = <<>>
    /\ MainIdle
    /\ CallIdle

\* AnchorExtractor.handle_starttag
handle_starttag ==
    /\ output = <<>>
    /\ \E event \in Incoming :
        LET tag == event.tag
            attrs == event.attrs
        IN
          /\ event.kind = "start"
          /\ events' = Append(events, event)
          /\ IF tag # "a"
             THEN UNCHANGED <<current, text_parts>>
             ELSE /\ current' = << [href |-> AttrGet(attrs, "href"),
                                    title_attr |-> AttrGet(attrs, "title"),
                                    aria_label |-> AttrGet(attrs, "aria-label")] >>
                  /\ text_parts' = <<>>
    /\ UNCHANGED <<anchors, rngTable, mainVars, callVars>>

\* AnchorExtractor.handle_data
handle_data ==
    /\ output = <<>>
    /\ \E event \in Incoming :
        LET data == event.data
        IN
          /\ event.kind = "data"
          /\ events' = Append(events, event)
          /\ IF current # <<>>
             THEN text_parts' = Append(text_parts, data)
             ELSE text_parts' = text_parts
    /\ UNCHANGED <<anchors, current, rngTable, mainVars, callVars>>

\* lines 113-114: the text of an anchor from its text nodes
AnchorText(parts) ==
    LET text == strip(join(<<" ">>, parts), Whitespace)
    IN  join(<<" ">>, splitWs(text))

\* mutant: any end tag closes the open anchor
handle_endtag_any_tag ==
    /\ output = <<>>
    /\ \E event \in Incoming :
        LET tag == event.tag
        IN
          /\ event.kind = "end"
          /\ events' = Append(events, event)
          /\ IF current = <<>>
             THEN UNCHANGED <<anchors, current, text_parts>>
             ELSE /\ anchors' = Append(anchors,
                        [href |-> current[1].href,
                         title_attr |-> current[1].title_attr,
                         aria_label |-> current[1].aria_label,
                         text |-> AnchorText(text_parts)])
                  /\ current' = <<>>
                  /\ text_parts' = <<>>
    /\ UNCHANGED <<rngTable, mainVars, callVars>>

\* AnchorExtractor.handle_endtag
handle_endtag ==
    /\ output = <<>>
    /\ \E event \in Incoming :
        LET tag == event.tag
        IN
          /\ event.kind = "end"
          /\ events' = Append(events, event)
          /\ IF tag # "a" \/ current = <<>>
             THEN UNCHANGED <<anchors, current, text_parts>>
             ELSE /\ anchors' = Append(anchors,
                        [href |-> current[1].href,
                         title_attr |-> current[1].title_attr,
                         aria_label |-> current[1].aria_label,
                         text |-> AnchorText(text_parts)])
                  /\ current' = <<>>
                  /\ text_parts' = <<>>
    /\ UNCHANGED <<rngTable, mainVars, callVars>>

\* lines 134-137: the markup is exhausted, parser.feed returns and
\* extract_recipes reads parser.anchors
feed_returns ==
    /\ output = <<>>
    /\ output' = <<anchors>>
    /\ UNCHANGED <<input, anchors, current, text_parts, events, rngTable, mainVars>>

ParserNext ==
    \/ handle_starttag
    \/ handle_data
    \/ handle_endtag
    \/ feed_returns

SpecParser == ParserInit /\ [][ParserNext]_vars

IsOpenA(i) == events[i].kind = "start" /\ events[i].tag = "a"
IsCloseA(i) == events[i].kind = "end" /\ events[i].tag = "a"

\* the positions of all <a> start tags
Opened == {i \in 1..Len(events) : IsOpenA(i)}

\* the positions of the <a> start tags that reach an </a> end tag before
\* any other <a> start tag
Closed ==
    {i \in Opened :
        \E j \in (i + 1)..Len(events) :
            /\ IsCloseA(j)
            /\ \A k \in (i + 1)..(j - 1) : ~IsOpenA(k) /\ ~IsCloseA(k)}

\* `records` are those of the start tags at `positions`, in document order
RecordsOf(records, positions) ==
    /\ Len(records) = Cardinality(positions)
    /\ \A k \in 1..Len(records) :
          LET attrs == events[Nth(positions, k)].attrs
          IN  /\ records[k].href = AttrGet(attrs, "href")
              /\ records[k].title_attr = AttrGet(attrs, "title")
              /\ records[k].aria_label = AttrGet(attrs, "aria-label")

\* C8 as claimed: for the whole document the extractor yields one record
\* per <a> start tag, in document order, with that tag's attributes, an <a>
\* opened inside an open anchor and an <a> never closed included.
C8_AsClaimed == output # <<>> => RecordsOf(output[1], Opened)

\* C8, amended: for the whole document the extractor yields one record per
\* <a> start tag that is followed by an </a> end tag with no other <a>
\* start tag in between, in document order, with that tag's attributes; an
\* <a> that is open when another <a> opens, or that is never closed, yields
\* no record.
C8_OneRecordPerClosedAnchor == output # <<>> => RecordsOf(output[1], Closed)

\* a document <a><a>..</a><a> : the second anchor alone yields a record
C8_Witness ==
    /\ output # <<>>
    /\ Len(events) >= 4
    /\ IsOpenA(1)
    /\ IsOpenA(2)
    /\ events[1].attrs # events[2].attrs
    /\ IsCloseA(3)
    /\ IsOpenA(4)
    /\ Len(output[1]) = 1
    /\ output[1][1].href = AttrGet(events[2].attrs, "href")

(***************************************************************************)
(* is_recipe_url                                                           *)
(***************************************************************************)
EXCLUDED_PATH_PREFIXES ==
    {<<"c", "a", "t", "e", "g", "o", "r", "y">>,
     <<"t", "a", "g">>,
     <<"p", "a", "g", "e">>,
     <<"w", "p", "-", "c", "o", "n", "t", "e", "n", "t">>,
     <<"w", "p", "-", "j", "s", "o", "n">>,
     <<"a", "u", "t", "h", "o", "r">>}

EXCLUDED_PATH_FRAGMENTS ==
    {<<"p", "r", "i", "v", "a", "c", "y">>,
     <<"t", "e", "r", "m", "s">>,
     <<"c", "o", "n", "t", "a", "c", "t">>,
     <<"a", "b", "o", "u", "t">>,
     <<"d", "i", "s", "c", "l", "a", "i", "m", "e", "r">>,
     <<"s", "h", "o", "p">>,
     <<"s", "t", "o", "r", "e">>,
     <<"p", "r", "i", "n", "t">>}

\* the hosts of line 174
ALLOWED_HOSTS ==
    {<<"w", "w", "w", ".", "n", "o", "r", "a", "c", "o", "o", "k", "s", ".", "c", "o", "m">>,
     <<"n", "o", "r", "a", "c", "o", "o", "k", "s", ".", "c", "o", "m">>}

\* the schemes of line 170
WEB_SCHEMES == {<<"h", "t", "t", "p">>, <<"h", "t", "t", "p", "s">>}

SchemeChars == LowerLetters \cup UpperLetters \cup Digits \cup {"+", "-", "."}

\* s[i:] for a 1-based position i
From(s, i) == SubSeq(s, i, Len(s))

\* urllib.parse.urlparse: scheme (lowercased), netloc, path, query, fragment
urlparse(url) ==
    LET colon == Find(url, {":"})
        hasScheme ==
            /\ colon > 1
            /\ url[1] \in LowerLetters \cup UpperLetters
            /\ \A i \in 1..(colon - 1) : url[i] \in SchemeChars
        afterScheme == IF hasScheme THEN From(url, colon + 1) ELSE url
        hasNetloc == Len(afterScheme) >= 2 /\ SubSeq(afterScheme, 1, 2) = <<"/", "/">>
        authority == From(afterScheme, 3)
        delim == Find(authority, {"/", "?", "#"})
        afterNetloc ==
            IF ~hasNetloc THEN afterScheme
            ELSE IF delim = 0 THEN <<>>
            ELSE From(authority, delim)
        hash == Find(afterNetloc, {"#"})
        beforeHash == IF hash = 0 THEN afterNetloc ELSE SubSeq(afterNetloc, 1, hash - 1)
        mark == Find(beforeHash, {"?"})
    IN  [scheme |-> IF hasScheme THEN lower(SubSeq(url, 1, colon - 1)) ELSE <<>>,
         netloc |-> IF ~hasNetloc THEN <<>>
                    ELSE IF delim = 0 THEN authority
                    ELSE SubSeq(authority, 1, delim - 1),
         path |-> IF mark = 0 THEN beforeHash ELSE SubSeq(beforeHash, 1, mark - 1),
         query |-> IF mark = 0 THEN <<>> ELSE From(beforeHash, mark + 1),
         fragment |-> IF hash = 0 THEN <<>> ELSE From(afterNetloc, hash + 1)]

\* mutant: the first segment is compared as written, not lowercased
is_recipe_url_prefix_as_written(url) ==
    LET parsed == urlparse(url)
        host == lower(parsed.netloc)
        path == strip(parsed.path, {"/"})
        segments == NonEmpty(split(path, "/"))
    IN  IF parsed.scheme \notin WEB_SCHEMES THEN FALSE
        ELSE IF host \notin ALLOWED_HOSTS THEN FALSE
        ELSE IF path = <<>> THEN FALSE
        ELSE IF segments = <<>> THEN FALSE
        ELSE IF segments[1] \in EXCLUDED_PATH_PREFIXES THEN FALSE
        ELSE IF \E fragment \in EXCLUDED_PATH_FRAGMENTS : Contains(lower(path), fragment)
        THEN FALSE
        ELSE TRUE

is_recipe_url(url) ==
    LET parsed == urlparse(url)
        host == lower(parsed.netloc)
        path == strip(parsed.path, {"/"})
        segments == NonEmpty(split(path, "/"))
    IN  IF parsed.scheme \notin WEB_SCHEMES THEN FALSE
        ELSE IF host \notin ALLOWED_HOSTS THEN FALSE
        ELSE IF path = <<>> THEN FALSE
        ELSE IF segments = <<>> THEN FALSE
        ELSE IF lower(segments[1]) \in EXCLUDED_PATH_PREFIXES THEN FALSE
        ELSE IF \E fragment \in EXCLUDED_PATH_FRAGMENTS : Contains(lower(path), fragment)
        THEN FALSE
        ELSE TRUE

\* URLs handed to is_recipe_url: a scheme part, an authority part and a path
UrlSchemes ==
    {<<"h", "t", "t", "p", "s", ":">>,
     <<"h", "t", "t", "p", ":">>,
     <<"H", "T", "T", "P", "S", ":">>,
     <<"f", "t", "p", ":">>,
     <<"m", "a", "i", "l", "t", "o", ":">>,
     <<>>}

UrlAuthorities ==
    {<<"/", "/", "w", "w", "w", ".", "n", "o", "r", "a", "c", "o", "o", "k", "s", ".", "c", "o", "m">>,
     <<"/", "/", "n", "o", "r", "a", "c", "o", "o", "k", "s", ".", "c", "o", "m">>,
     <<"/", "/", "W", "W", "W", ".", "N", "o", "r", "a", "C", "o", "o", "k", "s", ".", "c", "o", "m">>,
     <<"/", "/", "w", "w", "w", ".", "n", "o", "r", "a", "c", "o", "o", "k", "s", ".", "c", "o", "m", ":", "4", "4", "3">>,
     <<"/", "/", "e", "v", "i", "l", ".", "c", "o", "m">>,
     <<"/", "/", "n", "o", "r", "a", "c", "o", "o", "k", "s", ".", "c", "o", "m", ".", "e", "v", "i", "l", ".", "c", "o", "m">>,
     <<>>}

UrlPaths ==
    {<<>>,
     <<"/">>,
     <<"/", "v", "e", "g", "a", "n", "-", "c", "h", "i", "l", "i">>,
     <<"/", "v", "e", "g", "a", "n", "-", "c", "h", "i", "l", "i", "/">>,
     <<"/", "r", "e", "c", "i", "p", "e", "s", "/", "v", "e", "g", "a", "n", "-", "c", "h", "i", "l", "i">>,
     <<"/", "c", "a", "t", "e", "g", "o", "r", "y", "/", "s", "o", "u", "p", "s">>,
     <<"/", "C", "a", "t", "e", "g", "o", "r", "y", "/", "s", "o", "u", "p", "s">>,
     <<"/", "c", "a", "t", "e", "g", "o", "r", "i", "e", "s">>,
     <<"/", "r", "e", "c", "i", "p", "e", "s", "/", "c", "a", "t", "e", "g", "o", "r", "y">>,
     <<"/", "t", "a", "g", "/", "x">>,
     <<"/", "/", "t", "a", "g", "/", "x">>,
     <<"/", "p", "a", "g", "e", "/", "2">>,
     <<"/", "w", "p", "-", "c", "o", "n", "t", "e", "n", "t", "/", "a", ".", "j", "p", "g">>,
     <<"/", "w", "p", "-", "j", "s", "o", "n", "/", "x">>,
     <<"/", "a", "u", "t", "h", "o", "r", "/", "n", "o", "r", "a">>,
     <<"/", "p", "r", "i", "v", "a", "c", "y", "-", "p", "o", "l", "i", "c", "y">>,
     <<"/", "r", "e", "c", "i", "p", "e", "s", "/", "b", "l", "u", "e", "p", "r", "i", "n", "t", "-", "c", "a", "k", "e">>,
     <<"/", "S", "h", "o", "p", "/", "x">>,
     <<"/", "r", "e", "c", "i", "p", "e", "s", "/", "A", "b", "o", "u", "t", "-", "m", "e">>,
     <<"/", "t", "e", "r", "m", "s">>,
     <<"/", "c", "o", "n", "t", "a", "c", "t">>,
     <<"/", "d", "i", "s", "c", "l", "a", "i", "m", "e", "r">>,
     <<"/", "r", "e", "c", "i", "p", "e", "s", "/", "s", "t", "o", "r", "e">>,
     <<"/", "r", "e", "c", "i", "p", "e", "s", "/", "/", "x">>}

Urls == {s \o a \o p : s \in UrlSchemes, a \in UrlAuthorities, p \in UrlPaths}

ClassifierInit ==
    /\ input \in Urls
    /\ output = <<>>
    /\ rngTable = <<>>
    /\ MainIdle
    /\ ParserIdle

\* one call is_recipe_url(input)
CallIsRecipeUrl ==
    /\ output = <<>>
    /\ output' = <<is_recipe_url(input)>>
    /\ UNCHANGED <<input, rngTable, mainVars, parserVars>>

ClassifierNext == CallIsRecipeUrl

SpecClassifier == ClassifierInit /\ [][ClassifierNext]_vars

\* the path without its leading and trailing slashes
Trimmed(path) == strip(path, {"/"})

\* the first segment of a trimmed path: what precedes its first slash
FirstSegment(trimmed) ==
    IF Find(trimmed, {"/"}) = 0 THEN trimmed
    ELSE SubSeq(trimmed, 1, Find(trimmed, {"/"}) - 1)

MIN_TITLE_LEN == 4
MAX_TITLE_LEN == 120

\* mutant: a title of exactly 120 characters is refused
TitleFitsBelowMax(cleaned) ==
    MIN_TITLE_LEN <= Len(cleaned) /\ Len(cleaned) < MAX_TITLE_LEN

\* `4 <= len(cleaned) <= 120`
TitleFits(cleaned) ==
    MIN_TITLE_LEN <= Len(cleaned) /\ Len(cleaned) <= MAX_TITLE_LEN

\* lines 159-165: the loop over the candidates
RECURSIVE FirstTitle(_)
FirstTitle(candidates) ==
    IF candidates = <<>> THEN None
    ELSE LET candidate == Head(candidates)
             cleaned == strip(join(<<" ">>, splitWs(candidate)), Whitespace)
         IN  IF candidate = None \/ candidate = <<>>
             THEN FirstTitle(Tail(candidates))
             ELSE IF TitleFits(cleaned) THEN cleaned
             ELSE FirstTitle(Tail(candidates))

\* mutant: the title attribute is tried before the aria-label
pick_title_attr_first(anchor) ==
    FirstTitle(<<anchor.text, anchor.title_attr, anchor.aria_label>>)

pick_title(anchor) ==
    FirstTitle(<<anchor.text, anchor.aria_label, anchor.title_attr>>)

\* n copies of the character c
Rep(c, n) == [i \in 1..n |-> c]

\* values of an anchor's text, aria-label and title: absent, empty, blank,
\* and texts whose cleaned length is 3, 4, 5, 120 and 121
TitleCandidates ==
    {None,
     <<>>,
     <<" ", "\n", " ">>,
     <<"P", "i", "e">>,
     <<"a", " ", "\t", "b">>,
     <<"S", "o", "u", "p">>,
     <<" ", "T", "o", "\n", " ", "g", "o", " ">>,
     Rep("x", 120),
     Rep("y", 121),
     <<" ", " ">> \o Rep("z", 59) \o <<" ", "\n">> \o Rep("z", 60) \o <<" ">>,
     Rep("w", 60) \o <<" ", " ">> \o Rep("w", 60)}

TitleInit ==
    /\ input \in [text : TitleCandidates,
                  aria_label : TitleCandidates,
                  title_attr : TitleCandidates]
    /\ output = <<>>
    /\ rngTable = <<>>
    /\ MainIdle
    /\ ParserIdle

\* one call pick_title(input)
CallPickTitle ==
    /\ output = <<>>
    /\ output' = <<pick_title(input)>>
    /\ UNCHANGED <<input, rngTable, mainVars, parserVars>>

TitleNext == CallPickTitle

SpecTitle == TitleInit /\ [][TitleNext]_vars

\* whitespace collapsed and trimmed: every other character is kept, the
\* first whitespace character after a word is kept as one space when
\* another word follows, and all other whitespace disappears
Marked(c) ==
    [i \in 1..Len(c) |->
        IF c[i] \notin Whitespace
        THEN [ch |-> c[i], keep |-> TRUE]
        ELSE [ch |-> " ",
              keep |-> /\ i > 1
                       /\ c[i - 1] \notin Whitespace
                       /\ \E j \in (i + 1)..Len(c) : c[j] \notin Whitespace]]

IsKept(m) == m.keep

Cleaned(candidate) ==
    IF candidate = None THEN <<>>
    ELSE LET kept == SelectSeq(Marked(candidate), IsKept)
         IN  [k \in 1..Len(kept) |-> kept[k].ch]

Qualifies(candidate) == 4 <= Len(Cleaned(candidate)) /\ Len(Cleaned(candidate)) <= 120

\* C10: pick_title returns the cleaned form of the first of text,
\* aria_label, title_attr whose cleaned length is 4 to 120, skipping a
\* candidate that is absent, empty, too short or too long, and None exactly
\* when none of the three qualifies.
C10_FirstQualifyingTitle ==
    output # <<>> =>
        /\ output[1] =
              (IF Qualifies(input.text) THEN Cleaned(input.text)
               ELSE IF Qualifies(input.aria_label) THEN Cleaned(input.aria_label)
               ELSE IF Qualifies(input.title_attr) THEN Cleaned(input.title_attr)
               ELSE None)
        /\ (output[1] = None) <=>
              (/\ ~Qualifies(input.text)
               /\ ~Qualifies(input.aria_label)
               /\ ~Qualifies(input.title_attr))

\* a text too long once cleaned and an aria-label too short are skipped
\* for a title attribute of 120 characters after cleaning
C10_Witness ==
    /\ output # <<>>
    /\ Len(Cleaned(input.text)) = 121
    /\ Len(Cleaned(input.aria_label)) = 3
    /\ Len(input.title_attr) > 120
    /\ Len(output[1]) = 120
    /\ output[1] = Cleaned(input.title_attr)

(***************************************************************************)
(* strip_url                                                               *)
(***************************************************************************)
\* urllib.parse.uses_netloc, the schemes written with "//"
USES_NETLOC ==
    {<<"f", "t", "p">>,
     <<"h", "t", "t", "p">>,
     <<"g", "o", "p", "h", "e", "r">>,
     <<"n", "n", "t", "p">>,
     <<"t", "e", "l", "n", "e", "t">>,
     <<"i", "m", "a", "p">>,
     <<"w", "a", "i", "s">>,
     <<"f", "i", "l", "e">>,
     <<"m", "m", "s">>,
     <<"h", "t", "t", "p", "s">>,
     <<"s", "h", "t", "t", "p">>,
     <<"s", "n", "e", "w", "s">>,
     <<"p", "r", "o", "s", "p", "e", "r", "o">>,
     <<"r", "t", "s", "p">>,
     <<"r", "t", "s", "p", "s">>,
     <<"r", "t", "s", "p", "u">>,
     <<"r", "s", "y", "n", "c">>,
     <<"s", "v", "n">>,
     <<"s", "v", "n", "+", "s", "s", "h">>,
     <<"s", "f", "t", "p">>,
     <<"n", "f", "s">>,
     <<"g", "i", "t">>,
     <<"g", "i", "t", "+", "s", "s", "h">>,
     <<"w", "s">>,
     <<"w", "s", "s">>}

\* ParseResult.geturl(), urlunsplit of the components: "//" and the netloc
\* when there is a netloc or the scheme is written with one, then the
\* scheme, the query and the fragment when they are not empty.  (The
\* parameters of the last path segment are left out: no URL here has a ";".)
geturl(parsed) ==
    LET url == parsed.path
        slashes ==
            \/ parsed.netloc # <<>>
            \/ /\ parsed.scheme # <<>>
               /\ parsed.scheme \in USES_NETLOC
               /\ SubSeq(url, 1, Min(2, Len(url))) # <<"/", "/">>
        rooted == IF url # <<>> /\ url[1] # "/" THEN <<"/">> \o url ELSE url
        withNetloc == IF slashes THEN <<"/", "/">> \o parsed.netloc \o rooted ELSE url
        withScheme ==
            IF parsed.scheme # <<>> THEN parsed.scheme \o <<":">> \o withNetloc
            ELSE withNetloc
        withQuery ==
            IF parsed.query # <<>> THEN withScheme \o <<"?">> \o parsed.query
            ELSE withScheme
    IN  IF parsed.fragment # <<>> THEN withQuery \o <<"#">> \o parsed.fragment
        ELSE withQuery

\* mutant: one trailing slash is removed, `path[:-1]`, instead of all of them
strip_url_last_slash_only(url) ==
    LET parsed == urlparse(url)
        path ==
            IF parsed.path # <<"/">> /\ parsed.path # <<>>
                                     /\ parsed.path[Len(parsed.path)] = "/"
            THEN SubSeq(parsed.path, 1, Len(parsed.path) - 1)
            ELSE parsed.path
        cleaned == [parsed EXCEPT !.query = <<>>, !.fragment = <<>>, !.path = path]
    IN  geturl(cleaned)

\* lines 195-202
strip_url(url) ==
    LET parsed == urlparse(url)
        path == IF parsed.path # <<"/">> THEN rstrip(parsed.path, {"/"}) ELSE parsed.path
        cleaned == [parsed EXCEPT !.query = <<>>, !.fragment = <<>>, !.path = path]
    IN  geturl(cleaned)

\* URLs handed to strip_url, written from their parts: a scheme, a host
\* (none for the empty one), a path, and a query and a fragment with their
\* "?" and "#" (none for the empty ones)
PartSchemes ==
    {<<"h", "t", "t", "p", "s">>,
     <<"H", "T", "T", "P">>,
     <<"f", "t", "p">>}

PartHosts ==
    {<<"w", "w", "w", ".", "n", "o", "r", "a", "c", "o", "o", "k", "s", ".", "c", "o", "m">>,
     <<"E", "x", "a", "m", "p", "l", "e", ".", "o", "r", "g", ":", "8", "0", "8", "0">>,
     <<>>}

PartPaths ==
    {<<>>,
     <<"/">>,
     <<"/", "/">>,
     <<"/", "/", "/">>,
     <<"/", "s", "o", "u", "p">>,
     <<"/", "s", "o", "u", "p", "/">>,
     <<"/", "s", "o", "u", "p", "/", "/">>,
     <<"/", "s", "o", "u", "p", "/", "/", "/">>,
     <<"/", "r", "e", "c", "i", "p", "e", "s", "/", "s", "o", "u", "p">>,
     <<"/", "r", "e", "c", "i", "p", "e", "s", "/", "s", "o", "u", "p", "/">>,
     <<"/", "r", "e", "c", "i", "p", "e", "s", "/", "/", "s", "o", "u", "p", "/", "/">>}

PartQueries ==
    {<<>>,
     <<"?">>,
     <<"?", "u", "t", "m", "=", "1">>,
     <<"?", "n", "e", "x", "t", "=", "/", "a", "/">>}

PartFragments ==
    {<<>>,
     <<"#">>,
     <<"#", "t", "o", "p">>,
     <<"#", "/", "a", "/", "?", "b", "=", "/">>}

UrlParts ==
    [scheme : PartSchemes, host : PartHosts, path : PartPaths,
     query : PartQueries, fragment : PartFragments]

Written(parts) ==
    parts.scheme \o <<":">>
        \o (IF parts.host # <<>> THEN <<"/", "/">> \o parts.host ELSE <<>>)
        \o parts.path \o parts.query \o parts.fragment

NormalizerInit ==
    /\ input \in {Written(parts) : parts \in UrlParts}
    /\ output = <<>>
    /\ rngTable = <<>>
    /\ MainIdle
    /\ ParserIdle

\* one call strip_url(input)
CallStripUrl ==
    /\ output = <<>>
    /\ output' = <<strip_url(input)>>
    /\ UNCHANGED <<input, rngTable, mainVars, parserVars>>

NormalizerNext == CallStripUrl

SpecNormalizer == NormalizerInit /\ [][NormalizerNext]_vars

\* the number of slashes a path ends with
TrailingSlashes(path) ==
    IF \E k \in 1..Len(path) : path[k] # "/"
    THEN Len(path) - (CHOOSE k \in 1..Len(path) :
                         /\ path[k] # "/"
                         /\ \A j \in (k + 1)..Len(path) : path[j] = "/")
    ELSE Len(path)

\* a path less its last n characters
Without(path, n) == SubSeq(path, 1, Len(path) - n)

\* the URL of scheme, host and path alone, the scheme in lower case
Bare(parts, path) == lower(parts.scheme) \o <<":", "/", "/">> \o parts.host \o path

\* the absolute URLs with a host among the inputs
WithHost == {parts \in UrlParts : parts.host # <<>>}

\* C11 as claimed: for every absolute URL, strip_url removes the query and
\* the fragment and strips a single trailing slash from the path unless the
\* path is exactly "/": a path ending in several slashes loses only the
\* last one.
C11_AsClaimed ==
    output # <<>> =>
        \A parts \in WithHost :
            Written(parts) = input =>
                output[1] =
                    Bare(parts,
                         IF parts.path = <<"/">> THEN parts.path
                         ELSE Without(parts.path, Min(1, TrailingSlashes(parts.path))))

\* C11: for every absolute URL with a host, strip_url returns the URL
\* without its query and fragment (scheme in lower case, host as written)
\* and with every trailing slash of the path removed unless the path is
\* exactly "/": a path ending in one slash loses it, the path "/" is kept,
\* and a path ending in several slashes loses all of them.
C11_StripsAllTrailingSlashes ==
    output # <<>> =>
        \A parts \in WithHost :
            Written(parts) = input =>
                output[1] =
                    Bare(parts,
                         IF parts.path = <<"/">> THEN parts.path
                         ELSE Without(parts.path, TrailingSlashes(parts.path)))

\* a URL whose path ends in two slashes, with a query and a fragment that
\* end in slashes too, comes back with neither slash, query nor fragment
C11_Witness ==
    /\ output # <<>>
    /\ \E parts \in WithHost :
          /\ Written(parts) = input
          /\ TrailingSlashes(parts.path) = 2
          /\ Len(parts.path) > 2
          /\ parts.query # <<>>
          /\ parts.fragment # <<>>
          /\ output[1] = Bare(parts, Without(parts.path, 2))

(***************************************************************************)
(* extract_recipes                                                         *)
(***************************************************************************)
\* urllib.parse.uses_relative, the schemes a relative reference resolves in
USES_RELATIVE ==
    {<<"f", "t", "p">>,
     <<"h", "t", "t", "p">>,
     <<"g", "o", "p", "h", "e", "r">>,
     <<"n", "n", "t", "p">>,
     <<"i", "m", "a", "p">>,
     <<"w", "a", "i", "s">>,
     <<"f", "i", "l", "e">>,
     <<"h", "t", "t", "p", "s">>,
     <<"s", "h", "t", "t", "p">>,
     <<"m", "m", "s">>,
     <<"p", "r", "o", "s", "p", "e", "r", "o">>,
     <<"r", "t", "s", "p">>,
     <<"r", "t", "s", "p", "s">>,
     <<"r", "t", "s", "p", "u">>,
     <<"s", "f", "t", "p">>,
     <<"s", "v", "n">>,
     <<"s", "v", "n", "+", "s", "s", "h">>,
     <<"w", "s">>,
     <<"w", "s", "s">>}

\* urljoin's loop over the segments: ".." drops the last resolved segment
\* (none when there is none), "." is skipped
RECURSIVE ResolveSegments(_, _)
ResolveSegments(segments, resolved_path) ==
    IF segments = <<>> THEN resolved_path
    ELSE LET seg == Head(segments)
         IN  IF seg = <<".", ".">>
             THEN ResolveSegments(Tail(segments),
                                  SubSeq(resolved_path, 1, Len(resolved_path) - 1))
             ELSE IF seg = <<".">>
             THEN ResolveSegments(Tail(segments), resolved_path)
             ELSE ResolveSegments(Tail(segments), Append(resolved_path, seg))

\* `segments[1:-1] = filter(None, segments[1:-1])`
DropEmptyInside(segments) ==
    IF Len(segments) <= 2 THEN segments
    ELSE <<segments[1]>> \o NonEmpty(SubSeq(segments, 2, Len(segments) - 1))
                         \o <<segments[Len(segments)]>>

\* urljoin's path of the result: the reference's segments, after those of
\* the base's directory unless the reference starts at the root, resolved;
\* "/" when nothing is left
ResolvedPath(segments) ==
    LET resolved ==
            ResolveSegments(segments, <<>>)
                \o (IF segments[Len(segments)] \in {<<".">>, <<".", ".">>}
                    THEN << <<>> >> ELSE <<>>)
        joined == join(<<"/">>, resolved)
    IN  IF joined = <<>> THEN <<"/">> ELSE joined

\* `base_parts`: the base path's segments without the last one unless it
\* is empty (the base path ends in a slash)
BaseParts(split_base) ==
    IF split_base[Len(split_base)] # <<>>
    THEN SubSeq(split_base, 1, Len(split_base) - 1)
    ELSE split_base

\* urljoin once both are parsed: b is the parsed base, given the parsed
\* reference with the base's scheme for a missing one
JoinParsed(b, given, url) ==
    LET scheme == given.scheme
        netloc == IF scheme \in USES_NETLOC \cup {<<>>} THEN b.netloc ELSE given.netloc
    IN  IF scheme # b.scheme \/ scheme \notin USES_RELATIVE \cup {<<>>} THEN url
        ELSE IF scheme \in USES_NETLOC \cup {<<>>} /\ given.netloc # <<>>
        THEN geturl(given)
        ELSE IF given.path = <<>>
        THEN geturl([given EXCEPT
                        !.netloc = netloc,
                        !.path = b.path,
                        !.query = IF given.query = <<>> THEN b.query ELSE given.query])
        ELSE geturl([given EXCEPT
                        !.netloc = netloc,
                        !.path =
                            IF given.path[1] = "/"
                            THEN ResolvedPath(split(given.path, "/"))
                            ELSE ResolvedPath(DropEmptyInside(
                                    BaseParts(split(b.path, "/"))
                                        \o split(given.path, "/")))])

\* `urlparse(url, bscheme)`: the scheme defaults to the base's
WithDefaultScheme(written, bscheme) ==
    IF written.scheme = <<>> THEN [written EXCEPT !.scheme = bscheme] ELSE written

\* urllib.parse.urljoin(base, url), the call of line 141
urljoin(base, url) ==
    IF base = <<>> THEN url
    ELSE IF url = <<>> THEN base
    ELSE JoinParsed(urlparse(base),
                    WithDefaultScheme(urlparse(url), urlparse(base).scheme),
                    url)

\* mutant: the resolved URL is classified and kept as resolved, strip_url
\* is not applied
RECURSIVE ExtractLoopUnnormalized(_, _)
ExtractLoopUnnormalized(records, base_url) ==
    IF records = <<>> THEN <<>>
    ELSE LET anchor == Head(records)
             href == anchor.href
             url == urljoin(base_url, href)
             title == pick_title(anchor)
         IN  IF href = None \/ href = <<>> THEN ExtractLoopUnnormalized(Tail(records), base_url)
             ELSE IF ~is_recipe_url(url) THEN ExtractLoopUnnormalized(Tail(records), base_url)
             ELSE IF title = None \/ title = <<>> THEN ExtractLoopUnnormalized(Tail(records), base_url)
             ELSE <<Recipe(title, url)>> \o ExtractLoopUnnormalized(Tail(records), base_url)

\* lines 136-152: the loop over parser.anchors
RECURSIVE ExtractLoop(_, _)
ExtractLoop(records, base_url) ==
    IF records = <<>> THEN <<>>
    ELSE LET anchor == Head(records)
             href == anchor.href
             url == strip_url(urljoin(base_url, href))
             title == pick_title(anchor)
         IN  IF href = None \/ href = <<>> THEN ExtractLoop(Tail(records), base_url)
             ELSE IF ~is_recipe_url(url) THEN ExtractLoop(Tail(records), base_url)
             ELSE IF title = None \/ title = <<>> THEN ExtractLoop(Tail(records), base_url)
             ELSE <<Recipe(title, url)>> \o ExtractLoop(Tail(records), base_url)

\* the most anchor elements in one markup
MaxAnchors == 2

\* anchor elements of a page, each as the events HTMLParser reports for it
AnchorElements ==
    {<<StartEvent("a", <<<<"href", <<"/", "r", "e", "c", "i", "p", "e", "s", "/", "v", "e", "g", "a", "n", "-", "c", "h", "i", "l", "i", "/">>>>>>),
       DataEvent(<<"V", "e", "g", "a", "n", " ", "C", "h", "i", "l", "i">>),
       EndEvent("a")>>,
     <<StartEvent("a", <<<<"href", <<"h", "t", "t", "p", "s", ":", "/", "/", "w", "w", "w", ".", "n", "o", "r", "a", "c", "o", "o", "k", "s", ".", "c", "o", "m", "/", "v", "e", "g", "a", "n", "-", "c", "h", "i", "l", "i", "?", "u", "t", "m", "=", "1", "#", "t", "o", "p">>>>, <<"aria-label", <<"B", "e", "s", "t", " ", "C", "h", "i", "l", "i">>>>>>),
       DataEvent(<<"p", "i", "e">>),
       EndEvent("a")>>,
     <<StartEvent("a", <<<<"href", <<".", ".", "/", ".", ".", "/", ".", ".", "/", "l", "e", "n", "t", "i", "l", "-", "s", "o", "u", "p", "/", "/">>>>, <<"title", <<"L", "e", "n", "t", "i", "l", " ", "S", "o", "u", "p">>>>>>),
       DataEvent(<<" ", "\n", " ">>),
       EndEvent("a")>>,
     <<StartEvent("a", <<<<"href", <<"t", "o", "f", "u", "-", "s", "c", "r", "a", "m", "b", "l", "e", "/", "?", "s", "=", "1">>>>>>),
       DataEvent(<<"T", "o", "f", "u", " ", " ", "S", "c", "r", "a", "m", "b", "l", "e">>),
       EndEvent("a")>>,
     <<StartEvent("a", <<<<"title", <<"V", "e", "g", "a", "n", " ", "T", "a", "c", "o", "s">>>>>>),
       DataEvent(<<"V", "e", "g", "a", "n", " ", "T", "a", "c", "o", "s">>),
       EndEvent("a")>>,
     <<StartEvent("a", <<<<"href", <<>>>>>>),
       DataEvent(<<"E", "m", "p", "t", "y", " ", "l", "i", "n", "k">>),
       EndEvent("a")>>,
     <<StartEvent("a", <<<<"href", <<"/", "b", "a", "n", "a", "n", "a", "-", "b", "r", "e", "a", "d">>>>>>),
       DataEvent(<<"p", "i", "e">>),
       EndEvent("a")>>,
     <<StartEvent("a", <<<<"href", <<"h", "t", "t", "p", "s", ":", "/", "/", "e", "v", "i", "l", ".", "c", "o", "m", "/", "r", "e", "c", "i", "p", "e", "s", "/", "x">>>>>>),
       DataEvent(<<"E", "v", "i", "l", " ", "D", "i", "s", "h">>),
       EndEvent("a")>>,
     <<StartEvent("a", <<<<"href", <<"?", "p", "a", "g", "e", "=", "2">>>>>>),
       DataEvent(<<"N", "e", "x", "t", " ", "p", "a", "g", "e">>),
       EndEvent("a")>>,
     <<StartEvent("a", <<<<"href", <<"/", "/", "n", "o", "r", "a", "c", "o", "o", "k", "s", ".", "c", "o", "m", "/", "B", "a", "n", "a", "n", "a", "-", "B", "r", "e", "a", "d", "/", "#", "c", "o", "m", "m", "e", "n", "t", "s">>>>>>),
       DataEvent(<<"B", "a", "n", "a", "n", "a", "\n", "B", "r", "e", "a", "d">>),
       EndEvent("a")>>,
     <<StartEvent("a", <<<<"href", <<"/", "t", "a", "g", "/", "s", "o", "u", "p", "s", "/">>>>>>),
       DataEvent(<<"S", "o", "u", "p", "s">>),
       EndEvent("a")>>,
     <<StartEvent("a", <<<<"href", <<"m", "a", "i", "l", "t", "o", ":", "n", "o", "r", "a", "@", "n", "o", "r", "a", "c", "o", "o", "k", "s", ".", "c", "o", "m">>>>>>),
       DataEvent(<<"W", "r", "i", "t", "e", " ", "t", "o", " ", "N", "o", "r", "a">>),
       EndEvent("a")>>}

\* markups: up to MaxAnchors anchor elements one after the other
RECURSIVE Markups(_)
Markups(n) ==
    IF n = 0 THEN {<<>>}
    ELSE Markups(n - 1) \cup
         {markup \o element : markup \in Markups(n - 1), element \in AnchorElements}

\* base URLs: the first source page and a page at the site's root
BaseUrls ==
    {<<"h", "t", "t", "p", "s", ":", "/", "/", "w", "w", "w", ".", "n", "o", "r", "a", "c", "o", "o", "k", "s", ".", "c", "o", "m", "/", "c", "a", "t", "e", "g", "o", "r", "y", "/", "m", "e", "a", "l", "-", "t", "y", "p", "e", "/", "d", "i", "n", "n", "e", "r", "/">>,
     <<"h", "t", "t", "p", ":", "/", "/", "n", "o", "r", "a", "c", "o", "o", "k", "s", ".", "c", "o", "m", "/", "i", "n", "d", "e", "x", ".", "h", "t", "m", "l">>}

\* extract_recipes(html, base_url) is called: `input` holds the arguments
\* and the parser of line 133 is new
ExtractInit ==
    /\ input \in Markups(MaxAnchors) \X BaseUrls
    /\ output = <<>>
    /\ anchors = <<>>
    /\ current = <<>>
    /\ text_parts = <<>>
    /\ events = <<>>
    /\ rngTable = <<>>
    /\ MainIdle

\* lines 134-153: parser.feed(html) has returned; the loop runs over
\* parser.anchors and the list is returned
extract_recipes ==
    /\ Len(input) = 2
    /\ Len(events) = Len(input[1])
    /\ output = <<>>
    /\ output' = <<ExtractLoop(anchors, input[2])>>
    /\ UNCHANGED <<input, parserVars, rngTable, mainVars>>

ExtractNext ==
    \/ handle_starttag
    \/ handle_data
    \/ handle_endtag
    \/ extract_recipes

SpecExtract == ExtractInit /\ [][ExtractNext]_vars

\* the Recipe invariant: a title of 4 to 120 characters that whitespace
\* normalization leaves as it is, and a URL without query, fragment or
\* trailing slash that the classifier accepts
RecipeInvariant(recipe) ==
    /\ 4 <= Len(recipe.title)
    /\ Len(recipe.title) <= 120
    /\ Cleaned(recipe.title) = recipe.title
    /\ \A i \in 1..Len(recipe.url) : recipe.url[i] \notin {"?", "#"}
    /\ recipe.url # <<>>
    /\ recipe.url[Len(recipe.url)] # "/"
    /\ is_recipe_url(recipe.url)

\* the normalized form of an anchor's resolved href
NormalizedHref(anchor, base_url) == strip_url(urljoin(base_url, anchor.href))

\* the positions of the anchors that have an href, an accepted URL and a
\* qualifying title
Yielding(records, base_url) ==
    {i \in 1..Len(records) :
        /\ records[i].href \notin {None, <<>>}
        /\ is_recipe_url(NormalizedHref(records[i], base_url))
        /\ \/ Qualifies(records[i].text)
           \/ Qualifies(records[i].aria_label)
           \/ Qualifies(records[i].title_attr)}

\* C12: every Recipe extract_recipes produces satisfies the Recipe
\* invariant, its title being a cleaned title candidate of its anchor and
\* its url the normalized form of the anchor's resolved href; the anchors
\* with an href, an accepted URL and a qualifying title yield one Recipe
\* each, in order, and the other anchors none.  The recipes dedupe_recipes
\* and pick_weekly_recipes keep of them satisfy the invariant as well.
C12_RecipeInvariant ==
    output # <<>> =>
        LET produced == output[1]
            base_url == input[2]
            yielding == Yielding(anchors, base_url)
            deduped == dedupe_recipes(produced)
        IN  /\ Len(produced) = Cardinality(yielding)
            /\ \A k \in 1..Len(produced) :
                  LET anchor == anchors[Nth(yielding, k)]
                  IN  /\ RecipeInvariant(produced[k])
                      /\ produced[k].url = NormalizedHref(anchor, base_url)
                      /\ produced[k].title \in
                            {Cleaned(anchor.text), Cleaned(anchor.aria_label),
                             Cleaned(anchor.title_attr)}
            /\ \A k \in 1..Len(deduped) : RecipeInvariant(deduped[k])
            /\ \A draw \in SampleIndexes(Len(deduped), 1) :
                  LET picked == pick_weekly_recipes(deduped, 1, draw).value
                  IN  \A k \in 1..Len(picked) : RecipeInvariant(picked[k])

\* of two anchors one resolves to a rejected URL and yields nothing; the
\* other, whose text is too short, yields a Recipe titled by its
\* aria-label at a URL that normalization has changed
C12_Witness ==
    /\ output # <<>>
    /\ Len(anchors) = 2
    /\ Len(output[1]) = 1
    /\ \E i \in 1..2 :
          /\ anchors[i].href \notin {None, <<>>}
          /\ ~is_recipe_url(NormalizedHref(anchors[i], input[2]))
    /\ \E i \in 1..2 :
          /\ anchors[i].href \notin {None, <<>>}
          /\ ~Qualifies(anchors[i].text)
          /\ output[1][1].title = anchors[i].aria_label
          /\ output[1][1].url = NormalizedHref(anchors[i], input[2])
          /\ output[1][1].url # urljoin(input[2], anchors[i].href)

====
